---------------------------- MODULE Spec2Model ----------------------------
(***************************************************************************)
(* Model of src/src/habitability_calculator.py.                            *)
(*                                                                         *)
(* calculate_habitability_score(planet_data) is a straight-line function   *)
(* with one early return.  It is modelled statement by statement: one      *)
(* action per check, the program counter pc naming the statement that runs *)
(* next.  A caller repeatedly calls the function and may keep one earlier  *)
(* call (argument and outcome) to compare later calls against.             *)
(*                                                                         *)
(* Units.  The magnitudes of the input fields are written in thousandths   *)
(* (288.0 K is 288000, 0.5 Earth radii is 500, 0.1 is 100), so that every  *)
(* threshold of the code and values just below and above it are integers.  *)
(* The score is written in whole points (50.0 is 50); all the score        *)
(* arithmetic of the code is on multiples of 5 and is exact in floats.     *)
(***************************************************************************)
EXTENDS Integers, Sequences, FiniteSets, TLC

VARIABLES
    pc,           \* the statement of the function that runs next, or "idle"
    planet_data,  \* the dict passed to the call: a function on the keys present
    score,        \* the local variable score
    outcome,      \* what the call produced: a returned float or a raised error
    earlier       \* the caller's memory: <<>> or one earlier call <<[data, outcome]>>

vars == <<pc, planet_data, score, outcome, earlier>>

---------------------------------------------------------------------------
(* Python values that a numeric field can hold.                            *)

Num(n) == [kind |-> "num", v |-> n]
NaN == [kind |-> "nan", v |-> 0]
PosInf == [kind |-> "inf", v |-> 1]
NegInf == [kind |-> "inf", v |-> -1]
\* a value that is no number (a str, None): ordering it against an int raises
NonNumeric == [kind |-> "nonnum", v |-> 0]

\* x < n and x > n for a Python number x and an int or float literal n (in
\* thousandths).  Every comparison with NaN is False.
Lt(x, n) ==
    \/ x.kind = "num" /\ x.v < n
    \/ x.kind = "inf" /\ x.v < 0

Gt(x, n) ==
    \/ x.kind = "num" /\ x.v > n
    \/ x.kind = "inf" /\ x.v > 0

\* mutant: the function validates its input and rejects negative values and NaN
ComparableValidated(x) == x.kind = "inf" \/ (x.kind = "num" /\ x.v >= 0)

\* x < 200 is defined for every int and float, and raises TypeError otherwise
Comparable(x) == x.kind # "nonnum"

---------------------------------------------------------------------------
(* The dict lookups.                                                       *)

\* mutant: the luminosity lookup reads the neighbouring key orbital_period
GetNeighbourKey(d, key, default) ==
    LET k == IF key = "stellar_luminosity" THEN "orbital_period" ELSE key
    IN  IF k \in DOMAIN d THEN d[k] ELSE default

\* planet_data.get(key, default)
Get(d, key, default) == IF key \in DOMAIN d THEN d[key] ELSE default

\* mutant: the default temperature is given in Celsius (15.0) instead of Kelvin
DefaultTemperatureCelsius == Num(15000)

DefaultTemperature == Num(288000)
DefaultRadius == Num(1000)
DefaultMass == Num(1000)
DefaultLuminosity == Num(1000)
DefaultStellarType == "G"

---------------------------------------------------------------------------
(* The checks.                                                             *)

\* mutant: score is a name that outlives the call and is added to
InitialScoreAccumulated == score + 50

InitialScore == 50

\* mutant: the comparisons include the thresholds (<= and >=)
TemperatureExtremeInclusive(temp) == ~Gt(temp, 200000) \/ ~Lt(temp, 400000)

\* temp < 200 or temp > 400
TemperatureExtreme(temp) == Lt(temp, 200000) \/ Gt(temp, 400000)

\* radius < 0.5 or radius > 2.5
RadiusExtreme(radius) == Lt(radius, 500) \/ Gt(radius, 2500)

\* mass < 0.1 or mass > 10
MassExtreme(mass) == Lt(mass, 100) \/ Gt(mass, 10000)

\* mutant: and instead of or
LuminosityExtremeAnd(luminosity) == Lt(luminosity, 100) /\ Gt(luminosity, 10000)

\* luminosity < 0.1 or luminosity > 10
LuminosityExtreme(luminosity) == Lt(luminosity, 100) \/ Gt(luminosity, 10000)

\* mutant: a temperature penalty larger than the score left after the others
TemperaturePenaltyLarge == 20 + 5

TemperaturePenalty == 20
RadiusPenalty == 15
MassPenalty == 10
LuminosityPenalty == 5

\* mutant: the comparison is against another label
IsFlareOtherLabel(stellar_type) == stellar_type = "M"

\* mutant: the comparison ignores case
IsFlareAnyCase(stellar_type) == stellar_type \in {"flare", "Flare", "FLARE"}

\* stellar_type == 'flare'
IsFlare(stellar_type) == stellar_type = "flare"

\* mutant: the flare star is a penalty applied to the accumulated score
FlareScorePenalty(s) == s - 100

\* return 0.0: the value returned for a flare star, whatever score holds
FlareScore(s) == 0

Min(a, b) == IF a < b THEN a ELSE b
Max(a, b) == IF a > b THEN a ELSE b

\* max(0.0, min(100.0, score))
Clamp(s) == Max(0, Min(100, s))

Returned(s) == [kind |-> "return", v |-> s]
TypeError == [kind |-> "raise", v |-> 0]
NoOutcome == [kind |-> "none", v |-> 0]

---------------------------------------------------------------------------
(* The records the caller passes.                                          *)

Absent == [kind |-> "absent", v |-> 0]
AbsentType == "(absent)"

Fields ==
    {"stellar_type", "equilibrium_temperature", "radius", "mass",
     "orbital_period", "stellar_luminosity"}

\* the dict holding the given values; a field given as Absent is no key of it
Record(t, r, m, s, l, o) ==
    LET a == [equilibrium_temperature |-> t, radius |-> r, mass |-> m,
              stellar_type |-> s, stellar_luminosity |-> l, orbital_period |-> o]
        present == {f \in Fields :
                      IF f = "stellar_type" THEN a[f] # AbsentType ELSE a[f] # Absent}
    IN  [f \in present |-> a[f]]

RecordsOver(T, R, M, S, L, O) ==
    {Record(t, r, m, s, l, o) : t \in T, r \in R, m \in M, s \in S, l \in L, o \in O}

\* single calls: every threshold, its two neighbours, the default, a negative
\* value, zero, an infinity, NaN and a value that is no number
Records ==
    RecordsOver(
        {Absent, Num(199999), Num(200000), Num(288000), Num(400000), Num(400001),
         NaN, NegInf, NonNumeric},
        {Absent, Num(0), Num(499), Num(500), Num(1000), Num(2500), Num(2501),
         NonNumeric},
        {Absent, Num(-1000), Num(99), Num(100), Num(1000), Num(10000), Num(10001),
         NonNumeric},
        {AbsentType, "G", "M", "Flare", "flare"},
        {Absent, Num(99), Num(100), Num(1000), Num(10000), Num(10001), PosInf,
         NonNumeric},
        {Absent, Num(365250), NonNumeric})

\* calls that are compared with one another
SessionRecords ==
    RecordsOver(
        {Absent, Num(288000), Num(450000)},
        {Absent, Num(1000)},
        {Absent, Num(1000)},
        {AbsentType, "G", "M", "FLARE", "flare"},
        {Absent, Num(1000), Num(50)},
        {Absent, Num(365250), NonNumeric})

---------------------------------------------------------------------------
(* The function, statement by statement.                                   *)

Init ==
    /\ pc = "idle"
    /\ planet_data = <<>>
    /\ score = 0
    /\ outcome = NoOutcome
    /\ earlier = <<>>

\* the records the caller may pass next: once it keeps an earlier call, records
\* of SessionRecords only
Catalog == IF earlier = <<>> THEN Records \cup SessionRecords ELSE SessionRecords

\* the call, and score = 50.0
Call(d) ==
    /\ pc = "idle"
    /\ planet_data' = d
    /\ score' = InitialScore
    /\ outcome' = NoOutcome
    /\ pc' = "temperature"
    /\ UNCHANGED earlier

\* the shape of the three penalty checks that precede the flare test
Check(here, value, extreme, penalty, next) ==
    /\ pc = here
    /\ IF Comparable(value)
       THEN /\ score' = IF extreme THEN score - penalty ELSE score
            /\ pc' = next
            /\ UNCHANGED outcome
       ELSE /\ outcome' = TypeError
            /\ pc' = "raised"
            /\ UNCHANGED score
    /\ UNCHANGED <<planet_data, earlier>>

CheckTemperature ==
    LET temp == Get(planet_data, "equilibrium_temperature", DefaultTemperature)
    IN  Check("temperature", temp, TemperatureExtreme(temp), TemperaturePenalty,
              "radius")

CheckRadius ==
    LET radius == Get(planet_data, "radius", DefaultRadius)
    IN  Check("radius", radius, RadiusExtreme(radius), RadiusPenalty, "mass")

CheckMass ==
    LET mass == Get(planet_data, "mass", DefaultMass)
    IN  Check("mass", mass, MassExtreme(mass), MassPenalty, "stellar_type")

CheckStellarType ==
    LET stellar_type == Get(planet_data, "stellar_type", DefaultStellarType)
    IN  /\ pc = "stellar_type"
        /\ IF IsFlare(stellar_type)
           THEN /\ outcome' = Returned(FlareScore(score))
                /\ pc' = "returned"
           ELSE /\ pc' = "luminosity"
                /\ UNCHANGED outcome
        /\ UNCHANGED <<planet_data, score, earlier>>

CheckLuminosity ==
    LET luminosity == Get(planet_data, "stellar_luminosity", DefaultLuminosity)
    IN  Check("luminosity", luminosity, LuminosityExtreme(luminosity),
              LuminosityPenalty, "clamp")

ClampAndReturn ==
    /\ pc = "clamp"
    /\ score' = Clamp(score)
    /\ outcome' = Returned(score')
    /\ pc' = "returned"
    /\ UNCHANGED <<planet_data, earlier>>

\* the steps of the function body
Body ==
    \/ CheckTemperature
    \/ CheckRadius
    \/ CheckMass
    \/ CheckStellarType
    \/ CheckLuminosity
    \/ ClampAndReturn

\* the caller takes the outcome and drops the record
Finish ==
    /\ pc \in {"returned", "raised"}
    /\ pc' = "idle"
    /\ planet_data' = <<>>
    /\ outcome' = NoOutcome
    /\ UNCHANGED <<score, earlier>>

\* the caller takes the outcome and keeps the call to compare later ones with
FinishAndKeep ==
    /\ pc \in {"returned", "raised"}
    /\ planet_data \in SessionRecords
    /\ earlier' = <<[data |-> planet_data, outcome |-> outcome]>>
    /\ pc' = "idle"
    /\ planet_data' = <<>>
    /\ outcome' = NoOutcome
    /\ UNCHANGED score

Next ==
    \/ pc = "idle" /\ \E d \in Catalog : Call(d)
    \/ CheckTemperature
    \/ CheckRadius
    \/ CheckMass
    \/ CheckStellarType
    \/ CheckLuminosity
    \/ ClampAndReturn
    \/ Finish
    \/ FinishAndKeep

Spec == Init /\ [][Next]_vars

---------------------------------------------------------------------------
(* Vocabulary of the properties.  It is written in the terms of the        *)
(* documented behaviour (literal thresholds, penalties and defaults), not  *)
(* in the operators of the model above.                                    *)

Finished == pc \in {"returned", "raised"}

ScoringNumbers == {"equilibrium_temperature", "radius", "mass", "stellar_luminosity"}

IsNumber(x) == x.kind \in {"num", "nan", "inf"}

\* every numeric field d holds, of the given ones, is a number
NumericIn(d, fields) == \A f \in fields \cap DOMAIN d : IsNumber(d[f])

TypeOf(d) == IF "stellar_type" \in DOMAIN d THEN d["stellar_type"] ELSE "G"

\* the value of numeric field f, the documented default standing for an absent one
ValueOf(d, f) ==
    IF f \in DOMAIN d THEN d[f]
    ELSE IF f = "equilibrium_temperature" THEN [kind |-> "num", v |-> 288000]
    ELSE [kind |-> "num", v |-> 1000]

\* [x < lo or x > hi] as 1 or 0
Outside(x, lo, hi) ==
    IF \/ x.kind = "num" /\ (x.v < lo \/ x.v > hi)
       \/ x.kind = "inf"
    THEN 1 ELSE 0

ExpectedScore(d) ==
    50 - 20 * Outside(ValueOf(d, "equilibrium_temperature"), 200000, 400000)
       - 15 * Outside(ValueOf(d, "radius"), 500, 2500)
       - 10 * Outside(ValueOf(d, "mass"), 100, 10000)
       - 5 * Outside(ValueOf(d, "stellar_luminosity"), 100, 10000)

\* d with every absent scoring field set explicitly to its default
Filled(d) ==
    [f \in DOMAIN d \cup ScoringNumbers \cup {"stellar_type"} |->
        IF f \in DOMAIN d THEN d[f]
        ELSE IF f = "stellar_type" THEN "G"
        ELSE ValueOf(d, f)]

Without(d, f) == [g \in DOMAIN d \ {f} |-> d[g]]

Kept == earlier[1]

---------------------------------------------------------------------------

\* C1: every value the function returns lies in [0.0, 100.0]; in particular
\* it is never negative, whatever penalties are triggered.
RangeInvariant ==
    outcome.kind = "return" => (0 <= outcome.v /\ outcome.v <= 100)

\* a star that is no flare star with all four penalties triggered returned 0.0
RangeWitness ==
    /\ pc = "returned"
    /\ DOMAIN planet_data = ScoringNumbers
    /\ planet_data["equilibrium_temperature"].v = 199999
    /\ planet_data["radius"].v = 0
    /\ planet_data["mass"].v = -1000
    /\ planet_data["stellar_luminosity"].v = 99
    /\ outcome = [kind |-> "return", v |-> 0]

\* C2: a call whose stellar_type is "flare" returns exactly 0.0, whatever
\* numbers (or nothing) the temperature, radius and mass fields hold and
\* whatever the luminosity and orbital_period fields hold.
FlareOverride ==
    ( /\ Finished
      /\ "stellar_type" \in DOMAIN planet_data
      /\ planet_data["stellar_type"] = "flare"
      /\ NumericIn(planet_data, {"equilibrium_temperature", "radius", "mass"}) )
    => outcome = [kind |-> "return", v |-> 0]

\* a flare star returned 0.0 with a partial score of 5 accumulated and a
\* luminosity that would have been penalised
FlareWitness ==
    /\ pc = "returned"
    /\ TypeOf(planet_data) = "flare"
    /\ score = 5
    /\ Outside(ValueOf(planet_data, "stellar_luminosity"), 100, 10000) = 1
    /\ outcome = [kind |-> "return", v |-> 0]

\* C3: for a star that is no flare star the result is
\* 50 - 20*[temp out] - 15*[radius out] - 10*[mass out] - 5*[luminosity out].
AdditivePenalties ==
    ( /\ Finished
      /\ TypeOf(planet_data) # "flare"
      /\ NumericIn(planet_data, ScoringNumbers) )
    => outcome = [kind |-> "return", v |-> ExpectedScore(planet_data)]

\* the temperature and luminosity penalties alone were applied: 25.0
AdditiveWitness ==
    /\ pc = "returned"
    /\ DOMAIN planet_data = {"equilibrium_temperature", "stellar_luminosity", "stellar_type"}
    /\ planet_data["equilibrium_temperature"].v = 400001
    /\ planet_data["stellar_luminosity"].v = 10001
    /\ planet_data["stellar_type"] = "M"
    /\ outcome = [kind |-> "return", v |-> 25]

AtThreshold(f, lo, hi) ==
    /\ f \in DOMAIN planet_data
    /\ planet_data[f].kind = "num"
    /\ planet_data[f].v \in {lo, hi}

Beyond(f, lo, hi) ==
    /\ f \in DOMAIN planet_data
    /\ planet_data[f].kind = "num"
    /\ (planet_data[f].v < lo \/ planet_data[f].v > hi)

BoundaryStep(here, f, lo, hi, penalty) ==
    pc = here =>
        /\ AtThreshold(f, lo, hi) => (score' = score /\ pc' # "raised")
        /\ Beyond(f, lo, hi) => (score' = score - penalty /\ pc' # "raised")

\* C4: the check of a field whose value equals one of its two thresholds
\* leaves the score as it is, and the check of a value strictly beyond a
\* threshold subtracts the field's penalty; with nothing but the temperature
\* given, 200.0 gives 50.0 and 199.999 gives 30.0.
BoundaryExactness ==
    [][ /\ BoundaryStep("temperature", "equilibrium_temperature", 200000, 400000, 20)
        /\ BoundaryStep("radius", "radius", 500, 2500, 15)
        /\ BoundaryStep("mass", "mass", 100, 10000, 10)
        /\ BoundaryStep("luminosity", "stellar_luminosity", 100, 10000, 5)
        /\ (pc' = "returned" /\ DOMAIN planet_data = {"equilibrium_temperature"}) =>
              /\ planet_data["equilibrium_temperature"] = [kind |-> "num", v |-> 200000]
                    => outcome'.v = 50
              /\ planet_data["equilibrium_temperature"] = [kind |-> "num", v |-> 199999]
                    => outcome'.v = 30
      ]_vars

\* every field was given at a threshold and the call returned 50.0
BoundaryWitness ==
    /\ pc = "returned"
    /\ AtThreshold("equilibrium_temperature", 200000, 200000)
    /\ AtThreshold("radius", 2500, 2500)
    /\ AtThreshold("mass", 100, 100)
    /\ AtThreshold("stellar_luminosity", 10000, 10000)
    /\ outcome = [kind |-> "return", v |-> 50]

\* C5: two calls whose records are the same once every absent field is set
\* to its default (stellar_type "G", temperature 288.0, radius 1.0, mass 1.0,
\* luminosity 1.0) have the same outcome; the empty record gives 50.0.
MissingFieldsDefaulted ==
    /\ (Finished /\ earlier # <<>> /\ Filled(Kept.data) = Filled(planet_data))
          => outcome = Kept.outcome
    /\ (Finished /\ DOMAIN planet_data = {})
          => outcome = [kind |-> "return", v |-> 50]

\* the empty record was evaluated, then the record giving every default
MissingWitness ==
    /\ pc = "returned"
    /\ earlier # <<>>
    /\ DOMAIN Kept.data = {}
    /\ DOMAIN planet_data = ScoringNumbers \cup {"stellar_type"}
    /\ planet_data = Filled(Kept.data)
    /\ outcome = [kind |-> "return", v |-> 50]

\* C6: two calls whose records agree on everything but orbital_period have
\* the same outcome.
OrbitalPeriodIgnored ==
    ( /\ Finished
      /\ earlier # <<>>
      /\ Without(Kept.data, "orbital_period") = Without(planet_data, "orbital_period") )
    => outcome = Kept.outcome

\* a record without orbital_period, then the same record with one
OrbitalWitness ==
    /\ pc = "returned"
    /\ earlier # <<>>
    /\ "orbital_period" \notin DOMAIN Kept.data
    /\ "orbital_period" \in DOMAIN planet_data
    /\ planet_data["orbital_period"].kind = "num"
    /\ Without(planet_data, "orbital_period") = Kept.data
    /\ "stellar_luminosity" \notin DOMAIN planet_data
    /\ outcome.v = 30

\* C7: two calls whose records agree on every numeric field and whose
\* stellar_type values (given or absent) both differ from "flare" have the
\* same outcome.
OnlyLiteralFlare ==
    ( /\ Finished
      /\ earlier # <<>>
      /\ TypeOf(Kept.data) # "flare"
      /\ TypeOf(planet_data) # "flare"
      /\ Without(Kept.data, "stellar_type") = Without(planet_data, "stellar_type") )
    => outcome = Kept.outcome

\* a record of type "FLARE", then the same record without a type
LiteralWitness ==
    /\ pc = "returned"
    /\ earlier # <<>>
    /\ TypeOf(Kept.data) = "FLARE"
    /\ "stellar_type" \notin DOMAIN planet_data
    /\ Without(Kept.data, "stellar_type") = planet_data
    /\ outcome.v = 50

\* C8: a call with the record of an earlier call, whatever calls were made
\* in between, has the outcome of that earlier call.
SameRecordSameOutcome ==
    (Finished /\ earlier # <<>> /\ Kept.data = planet_data)
    => outcome = Kept.outcome

\* a penalised record was evaluated a second time
SameRecordWitness ==
    /\ pc = "returned"
    /\ earlier # <<>>
    /\ Kept.data = planet_data
    /\ "equilibrium_temperature" \in DOMAIN planet_data
    /\ planet_data["equilibrium_temperature"].v = 450000
    /\ outcome = [kind |-> "return", v |-> 30]

\* C9: a call whose numeric fields hold numbers (or are absent) never raises
\* and always has a next statement to run until it returns; a negative mass
\* is not rejected, it takes the mass penalty.
NeverFailsOnNumbers ==
    NumericIn(planet_data, ScoringNumbers) =>
        /\ pc # "raised"
        /\ outcome.kind # "raise"
        /\ pc \notin {"idle", "returned"} => ENABLED Body
        /\ ( /\ pc = "stellar_type"
             /\ "mass" \in DOMAIN planet_data
             /\ planet_data["mass"] = [kind |-> "num", v |-> -1000] )
           => score = 50 - 20 * Outside(ValueOf(planet_data, "equilibrium_temperature"), 200000, 400000)
                         - 15 * Outside(ValueOf(planet_data, "radius"), 500, 2500)
                         - 10

\* a record of negative mass, zero radius, NaN temperature and infinite
\* luminosity was evaluated: 50 - 15 - 10 - 5
NeverFailsWitness ==
    /\ pc = "returned"
    /\ DOMAIN planet_data = ScoringNumbers
    /\ planet_data["mass"].v = -1000
    /\ planet_data["radius"].v = 0
    /\ planet_data["equilibrium_temperature"].kind = "nan"
    /\ planet_data["stellar_luminosity"].kind = "inf"
    /\ outcome = [kind |-> "return", v |-> 20]

\* C10: at the clamp the score lies in [0.0, 50.0] and the clamp returns it
\* unchanged; every returned value is one of 0, 5, 10, ..., 50.
ClampNeverActive ==
    [][ /\ pc = "clamp" =>
              /\ 0 <= score /\ score <= 50
              /\ score' = score
              /\ outcome' = [kind |-> "return", v |-> score]
        /\ outcome'.kind = "return" => outcome'.v \in {5 * k : k \in 0..10}
      ]_vars

\* the four penalties brought the score to the lower edge before the clamp
ClampWitness ==
    /\ pc = "clamp"
    /\ score = 0

=============================================================================
